---- MODULE Spec2Model ----
(***************************************************************************)
(* Model of the Web-Scraper client: the scrape form (ScrapeForm.tsx: the   *)
(* submission controller and the progress channel) and the dashboard       *)
(* (Dashboard.tsx: record store, derived view, selection, deletion, CSV    *)
(* export).                                                                *)
(*                                                                         *)
(* Execution model.  JavaScript runs one handler at a time; a handler that *)
(* sets React state is followed by a render of the component, which runs   *)
(* the effect cleanups whose dependencies changed.  In the form the render *)
(* is the step Render, taken before the next event is handled.  The        *)
(* synchronous part of handleSubmit is cut into its statements (reset,     *)
(* open the channel, send the request) so that their order is observable.  *)
(* In the dashboard the only effect is filterData, on [data,               *)
(* contentTypeFilter, searchQuery]; it is part of the action whose state    *)
(* change triggers it.                                                      *)
(***************************************************************************)
EXTENDS Integers, Sequences, FiniteSets, TLC

VARIABLES
    \* ---- ScrapeForm component state (useState) ----
    url, category, contentType, loading, message, messageType, progress,
    eventSource,
    \* ---- ScrapeForm environment: channels, requests, closures ----
    chan,        \* chan[k]: readyState of the k-th EventSource created
    handlers,    \* set of channels whose onmessage/onerror are installed
    req,         \* req[k]: state of the POST /scrape of the k-th submit
    closureES,   \* closureES[k]: `eventSource` as captured by the k-th handleSubmit
    closureCT,   \* closureCT[k]: `contentType` as captured by the k-th handleSubmit
    effectES,    \* `eventSource` held by the cleanup of the mounted effect
    created,     \* number of EventSource objects created so far
    pc,          \* position: "ready", inside handleSubmit, or pending render
    mounted,     \* the component is mounted
    lastEvent,   \* kind of the last submit, channel or request event handled (history)
    scenario,    \* how far the newest submission has received ScenarioEvents (history)
    \* ---- Dashboard component state (useState) ----
    data, filteredData, dashLoading, dashError, siteSummary, selectedItems,
    isDeleting, contentTypeFilter, searchQuery,
    \* ---- Dashboard environment: requests and closures ----
    loadReq,     \* a GET /data is in flight
    delReq,      \* a POST /delete is in flight
    delItems,    \* `itemsToDelete` of the handleDeleteSelected in flight
    delData,     \* `data` as captured by the handleDeleteSelected in flight
    download,    \* the file the last export handed to the browser
    dashLast     \* kind of the last dashboard event handled (history)

formVars == <<url, category, contentType, loading, message, messageType, progress,
              eventSource, chan, handlers, req, closureES, closureCT, effectES,
              created, pc, mounted, lastEvent, scenario>>

dashVars == <<data, filteredData, dashLoading, dashError, siteSummary, selectedItems,
              isDeleting, contentTypeFilter, searchQuery, loadReq, delReq, delItems,
              delData, download, dashLast>>

vars == <<formVars, dashVars>>

----------------------------------------------------------------------------
(* Bounds *)

MaxSubmits == 2

----------------------------------------------------------------------------
(* Values *)

Ids == 1..MaxSubmits
NoES == 0                       \* the null EventSource reference

\* Strings whose content matters are sequences of characters.
Urls == { <<>>, <<" ">>, <<"u">> }
Categories == { "", "Fiction" }
ContentTypes == { "books", "tvshows" }

RECURSIVE TrimStart(_)
TrimStart(s) ==
    IF s # <<>> /\ Head(s) = " " THEN TrimStart(Tail(s)) ELSE s

RECURSIVE TrimEnd(_)
TrimEnd(s) ==
    IF s # <<>> /\ s[Len(s)] = " " THEN TrimEnd(SubSeq(s, 1, Len(s) - 1)) ELSE s

\* String.prototype.trim
Trim(s) == TrimEnd(TrimStart(s))

\* A user-visible message: <<text>> or <<"Successfully scraped", n, itemType>>.
Msg(t) == <<t>>
NoMessage == Msg("")

InitialProgress ==
    [ total_items |-> 0, processed_items |-> 0, ai_total |-> 0, ai_processed |-> 0,
      scraping_percentage |-> 0, ai_percentage |-> 0,
      status |-> "idle", message |-> "" ]

StartingProgress ==
    [ total_items |-> 0, processed_items |-> 0, ai_total |-> 0, ai_processed |-> 0,
      scraping_percentage |-> 0, ai_percentage |-> 0,
      status |-> "starting", message |-> "Starting scraping process..." ]

\* The progress objects the server may put on the channel.  The client does not
\* compute anything in them: counters, percentages and status are the server's.
EventStatuses == { "starting", "running", "completed", "error" }

Payload(s, total, processed, pct, m) ==
    [ total_items |-> total, processed_items |-> processed, ai_total |-> 0,
      ai_processed |-> 0, scraping_percentage |-> pct, ai_percentage |-> 0,
      status |-> s, message |-> m ]

Payloads ==
    { Payload("starting", 0, 0, 0, ""),
      Payload("running", 10, 5, 50, ""),
      Payload("running", 10, 5, 0, ""),
      Payload("completed", 10, 10, 100, ""),
      Payload("error", 10, 5, 50, "m"),
      Payload("error", 0, 0, 0, "") }

\* event.data on the wire: JSON text of a payload, or text that is not JSON.
WireData == { [ json |-> TRUE, value |-> p ] : p \in Payloads }
            \cup { [ json |-> FALSE, value |-> InitialProgress ] }

\* JSON.parse: throws on text that is not JSON, else yields the object.
JSONParse(d) ==
    IF d.json THEN [ threw |-> FALSE, value |-> d.value ]
              ELSE [ threw |-> TRUE, value |-> d.value ]

----------------------------------------------------------------------------
(* ScrapeForm *)

FormInit ==
    /\ url = <<>>
    /\ category = ""
    /\ contentType = "books"
    /\ loading = FALSE
    /\ message = NoMessage
    /\ messageType = "success"
    /\ progress = InitialProgress
    /\ eventSource = NoES
    /\ chan = [ k \in Ids |-> "none" ]
    /\ handlers = {}
    /\ req = [ k \in Ids |-> "none" ]
    /\ closureES = [ k \in Ids |-> NoES ]
    /\ closureCT = [ k \in Ids |-> "books" ]
    /\ effectES = NoES
    /\ created = 0
    /\ pc = "ready"
    /\ mounted = TRUE
    /\ lastEvent = "none"
    /\ scenario = 0

\* EventSource.close(): a no-op on a channel that is not open.
Close(c, k) ==
    IF k # NoES /\ c[k] = "open" THEN [ c EXCEPT ![k] = "closed" ] ELSE c

\* The progress scenario of the specification: the events of one submission.
ScenarioEvents ==
    << Payload("starting", 0, 0, 0, ""),
       Payload("running", 10, 5, 50, ""),
       Payload("completed", 10, 10, 100, "") >>

OffScenario == Len(ScenarioEvents) + 1

\* The scenario monitor: one step further when the channel delivers the next
\* event of ScenarioEvents, off the scenario on anything else.
Follow(sc, d) ==
    IF sc < Len(ScenarioEvents) /\ d = [ json |-> TRUE, value |-> ScenarioEvents[sc + 1] ]
    THEN sc + 1 ELSE OffScenario

\* A state setter of an unmounted component does nothing.
Set(new, old) == IF mounted THEN new ELSE old

\* The user edits the form fields: lines 182-185, 204, 220.  The render that
\* follows a handler that leaves `eventSource` alone runs no effect.
SetUrl(u) ==
    /\ pc = "ready" /\ mounted
    /\ url # u
    /\ url' = u
    /\ UNCHANGED <<category, contentType, loading, message, messageType, progress,
                   eventSource, chan, handlers, req, closureES, closureCT, effectES,
                   created, pc, mounted, lastEvent, scenario>>
    /\ UNCHANGED dashVars

SetCategory(c) ==
    /\ pc = "ready" /\ mounted
    /\ category # c
    /\ category' = c
    /\ UNCHANGED <<url, contentType, loading, message, messageType, progress,
                   eventSource, chan, handlers, req, closureES, closureCT, effectES,
                   created, pc, mounted, lastEvent, scenario>>
    /\ UNCHANGED dashVars

SetContentType(t) ==
    /\ pc = "ready" /\ mounted
    /\ contentType # t
    /\ contentType' = t
    /\ category' = ""
    /\ UNCHANGED <<url, loading, message, messageType, progress,
                   eventSource, chan, handlers, req, closureES, closureCT, effectES,
                   created, pc, mounted, lastEvent, scenario>>
    /\ UNCHANGED dashVars

\* Mutant of UrlMissing: the test without the trim.
UrlMissingNoTrim(u) == u = <<>>

\* The validation test of handleSubmit, !url.trim(): line 81.
UrlMissing(u) == Trim(u) = <<>>

\* handleSubmit, the validation failure: lines 78-85.  The submit button is
\* disabled while loading (line 234).
SubmitInvalid ==
    /\ pc = "ready" /\ mounted /\ ~loading
    /\ UrlMissing(url)
    /\ message' = Msg("Please enter a URL")
    /\ messageType' = "error"
    /\ lastEvent' = "invalid_submit"
    /\ UNCHANGED <<url, category, contentType, loading, progress,
                   eventSource, chan, handlers, req, closureES, closureCT, effectES,
                   created, pc, mounted, scenario>>
    /\ UNCHANGED dashVars

\* handleSubmit on a valid url, up to the reset of progress: lines 87-98.
SubmitReset ==
    /\ pc = "ready" /\ mounted /\ ~loading
    /\ ~UrlMissing(url)
    /\ created < MaxSubmits
    /\ loading' = TRUE
    /\ message' = NoMessage
    /\ progress' = StartingProgress
    /\ lastEvent' = "submit"
    /\ scenario' = 0
    /\ pc' = "open"
    /\ UNCHANGED <<url, category, contentType, messageType,
                   eventSource, chan, handlers, req, closureES, closureCT, effectES,
                   created, mounted>>
    /\ UNCHANGED dashVars

\* Mutant of OpenChannel: the request is issued before the channel is created.
OpenChannelAfterPost ==
    /\ pc = "open"
    /\ req' = [ req EXCEPT ![created + 1] = "inflight" ]
    /\ created' = created + 1
    /\ chan' = [ chan EXCEPT ![created + 1] = "open" ]
    /\ handlers' = handlers \cup { created + 1 }
    /\ closureES' = [ closureES EXCEPT ![created + 1] = eventSource ]
    /\ closureCT' = [ closureCT EXCEPT ![created + 1] = contentType ]
    /\ eventSource' = created + 1
    /\ pc' = "post"
    /\ UNCHANGED <<url, category, contentType, loading, message, messageType,
                   progress, effectES, mounted, lastEvent, scenario>>
    /\ UNCHANGED dashVars

\* handleSubmit: new EventSource, setEventSource(es), es.onmessage and es.onerror
\* assigned: lines 101-136.  The handler's closure keeps the `eventSource` and
\* `contentType` of the render it was created in.
OpenChannel ==
    /\ pc = "open"
    /\ created' = created + 1
    /\ chan' = [ chan EXCEPT ![created + 1] = "open" ]
    /\ handlers' = handlers \cup { created + 1 }
    /\ closureES' = [ closureES EXCEPT ![created + 1] = eventSource ]
    /\ closureCT' = [ closureCT EXCEPT ![created + 1] = contentType ]
    /\ eventSource' = created + 1
    /\ pc' = "post"
    /\ UNCHANGED <<url, category, contentType, loading, message, messageType,
                   progress, req, effectES, mounted, lastEvent, scenario>>
    /\ UNCHANGED dashVars

\* handleSubmit: axios.post('/scrape') is issued and the handler suspends: 139-143.
SendRequest ==
    /\ pc = "post"
    /\ req' = [ req EXCEPT ![created] = "inflight" ]
    /\ pc' = "render"
    /\ UNCHANGED <<url, category, contentType, loading, message, messageType,
                   progress, eventSource, chan, handlers, closureES, closureCT,
                   effectES, created, mounted, lastEvent, scenario>>
    /\ UNCHANGED dashVars

\* The render after a handler: the effect of lines 158-164 depends on
\* [eventSource]; when it changed, the cleanup of the previous effect closes the
\* EventSource that effect held.
Render ==
    /\ pc = "render"
    /\ chan' = IF eventSource # effectES THEN Close(chan, effectES) ELSE chan
    /\ effectES' = eventSource
    /\ pc' = "ready"
    /\ UNCHANGED <<url, category, contentType, loading, message, messageType,
                   progress, eventSource, handlers, req, closureES, closureCT,
                   created, mounted, lastEvent, scenario>>
    /\ UNCHANGED dashVars

\* The item noun of the success message: line 110.
ItemType(ct) == IF ct = "tvshows" THEN "TV shows" ELSE ct

EventKind(d) == IF JSONParse(d).threw THEN "malformed" ELSE JSONParse(d).value.status

\* Mutant of ParseFailed: an undecodable event ends the stream like a transport
\* failure.
ParseFailedFatal(k) ==
    /\ loading' = Set(FALSE, loading)
    /\ chan' = Close(chan, k)
    /\ eventSource' = Set(NoES, eventSource)
    /\ pc' = IF mounted THEN "render" ELSE pc
    /\ UNCHANGED <<url, category, message, messageType, progress>>

\* es.onmessage, JSON.parse threw: the catch of lines 125-127 only logs.
ParseFailed(k) ==
    UNCHANGED <<url, category, loading, message, messageType, progress,
                eventSource, chan, pc>>

\* Mutant of Completed: es.close() is left out of the completed branch.
CompletedNoClose(k, evData) ==
    /\ message' = Set(<<"Successfully scraped", evData.processed_items,
                        ItemType(closureCT[k])>>, message)
    /\ messageType' = Set("success", messageType)
    /\ url' = Set(<<>>, url)
    /\ category' = Set("", category)
    /\ loading' = Set(FALSE, loading)
    /\ chan' = chan
    /\ eventSource' = Set(NoES, eventSource)

\* es.onmessage, data.status === 'completed': lines 109-117.
Completed(k, evData) ==
    /\ message' = Set(<<"Successfully scraped", evData.processed_items,
                        ItemType(closureCT[k])>>, message)
    /\ messageType' = Set("success", messageType)
    /\ url' = Set(<<>>, url)
    /\ category' = Set("", category)
    /\ loading' = Set(FALSE, loading)
    /\ chan' = Close(chan, k)
    /\ eventSource' = Set(NoES, eventSource)

\* Mutant of Errored: the error branch clears the form fields as the completed
\* branch does.
ErroredClearsFields(k, evData) ==
    /\ message' = Set(Msg(IF evData.message # "" THEN evData.message
                          ELSE "An error occurred while scraping"), message)
    /\ messageType' = Set("error", messageType)
    /\ url' = Set(<<>>, url)
    /\ category' = Set("", category)
    /\ loading' = Set(FALSE, loading)
    /\ chan' = Close(chan, k)
    /\ eventSource' = Set(NoES, eventSource)

\* es.onmessage, data.status === 'error': lines 118-124.
Errored(k, evData) ==
    /\ message' = Set(Msg(IF evData.message # "" THEN evData.message
                          ELSE "An error occurred while scraping"), message)
    /\ messageType' = Set("error", messageType)
    /\ loading' = Set(FALSE, loading)
    /\ chan' = Close(chan, k)
    /\ eventSource' = Set(NoES, eventSource)
    /\ UNCHANGED <<url, category>>

\* es.onmessage, a decoded event: setProgress(data), then the branch on
\* data.status: lines 106-124.
Decoded(k, evData) ==
    /\ progress' = Set(evData, progress)
    /\ pc' = IF mounted THEN "render" ELSE pc
    /\ IF evData.status = "completed" THEN Completed(k, evData)
       ELSE IF evData.status = "error" THEN Errored(k, evData)
       ELSE UNCHANGED <<url, category, loading, message, messageType,
                        eventSource, chan>>

\* es.onmessage of channel k receives event.data = d: lines 104-128.
OnMessage(k, d) ==
    /\ pc = "ready"
    /\ k \in handlers /\ chan[k] = "open"
    /\ lastEvent' = EventKind(d)
    /\ scenario' = Follow(scenario, d)
    /\ IF JSONParse(d).threw THEN ParseFailed(k)
       ELSE Decoded(k, JSONParse(d).value)
    /\ UNCHANGED <<contentType, handlers, req, closureES, closureCT, effectES,
                   created, mounted>>
    /\ UNCHANGED dashVars

\* Mutant of OnError: the transport failure closes the channel and reports it
\* but leaves loading set.
OnErrorKeepsLoading(k) ==
    /\ pc = "ready"
    /\ k \in handlers /\ chan[k] = "open"
    /\ lastEvent' = "transport_error"
    /\ scenario' = OffScenario
    /\ message' = Set(Msg("Connection error occurred"), message)
    /\ messageType' = Set("error", messageType)
    /\ chan' = Close(chan, k)
    /\ eventSource' = Set(NoES, eventSource)
    /\ pc' = IF mounted THEN "render" ELSE pc
    /\ UNCHANGED <<url, category, contentType, loading, progress, handlers, req,
                   closureES, closureCT, effectES, created, mounted>>
    /\ UNCHANGED dashVars

\* es.onerror of channel k, a transport failure: lines 130-136.
OnError(k) ==
    /\ pc = "ready"
    /\ k \in handlers /\ chan[k] = "open"
    /\ lastEvent' = "transport_error"
    /\ scenario' = OffScenario
    /\ message' = Set(Msg("Connection error occurred"), message)
    /\ messageType' = Set("error", messageType)
    /\ loading' = Set(FALSE, loading)
    /\ chan' = Close(chan, k)
    /\ eventSource' = Set(NoES, eventSource)
    /\ pc' = IF mounted THEN "render" ELSE pc
    /\ UNCHANGED <<url, category, contentType, progress, handlers, req, closureES,
                   closureCT, effectES, created, mounted>>
    /\ UNCHANGED dashVars

\* The POST of submit k is answered with success: the await of line 139 returns
\* and handleSubmit ends.
RequestOk(k) ==
    /\ pc = "ready"
    /\ req[k] = "inflight"
    /\ req' = [ req EXCEPT ![k] = "ok" ]
    /\ lastEvent' = "request_ok"
    /\ UNCHANGED <<url, category, contentType, loading, message, messageType,
                   progress, eventSource, chan, handlers, closureES, closureCT,
                   effectES, created, pc, mounted, scenario>>
    /\ UNCHANGED dashVars

\* The POST of submit k fails; apiError is error.response.data.error or "" when
\* absent: the catch of lines 144-154.  `eventSource` there is the closure's.
RequestFail(k, apiError) ==
    /\ pc = "ready"
    /\ req[k] = "inflight"
    /\ req' = [ req EXCEPT ![k] = "failed" ]
    /\ lastEvent' = "request_failed"
    /\ scenario' = OffScenario
    /\ message' = Set(Msg(IF apiError # "" THEN apiError
                          ELSE "An error occurred while scraping"), message)
    /\ messageType' = Set("error", messageType)
    /\ loading' = Set(FALSE, loading)
    /\ chan' = Close(chan, closureES[k])
    /\ eventSource' = IF closureES[k] # NoES THEN Set(NoES, eventSource)
                      ELSE eventSource
    /\ pc' = IF mounted THEN "render" ELSE pc
    /\ UNCHANGED <<url, category, contentType, progress, handlers, closureES,
                   closureCT, effectES, created, mounted>>
    /\ UNCHANGED dashVars

\* The form is unmounted: the cleanup of the mounted effect runs: lines 158-164.
Unmount ==
    /\ pc = "ready" /\ mounted
    /\ mounted' = FALSE
    /\ chan' = Close(chan, effectES)
    /\ lastEvent' = "unmount"
    /\ scenario' = OffScenario
    /\ UNCHANGED <<url, category, contentType, loading, message, messageType,
                   progress, eventSource, handlers, req, closureES, closureCT,
                   effectES, created, pc>>
    /\ UNCHANGED dashVars

ApiErrors == { "", "bad url" }

FormNext ==
    \/ \E u \in Urls : SetUrl(u)
    \/ \E c \in Categories : SetCategory(c)
    \/ \E t \in ContentTypes : SetContentType(t)
    \/ SubmitInvalid
    \/ SubmitReset
    \/ OpenChannel
    \/ SendRequest
    \/ Render
    \/ \E k \in Ids, d \in WireData : OnMessage(k, d)
    \/ \E k \in Ids : OnError(k)
    \/ \E k \in Ids : RequestOk(k)
    \/ \E k \in Ids, e \in ApiErrors : RequestFail(k, e)
    \/ Unmount

----------------------------------------------------------------------------
(* Dashboard: values *)

MaxRecords == 3

\* ScrapedItem: lines 4-13.  Text is a sequence of characters or of indivisible
\* pieces of text; contentType is optional ("undefined" when absent).
Item(title, source, timestamp, ct) ==
    [ title |-> title, price |-> <<"9">>, availability |-> <<"yes">>,
      category |-> <<"General">>, source |-> source, timestamp |-> timestamp,
      contentType |-> ct ]

\* Three stored records: a source that is a URL, an empty source, and a source
\* that is text but no URL; one record has no contentType, and its title and
\* category hold a double quote.
ItemA == Item(<<"a">>, <<"http://", "x.com", "/1">>, <<"t1">>, "books")
ItemB == Item(<<"A", "b">>, <<>>, <<"t1">>, "movies")
ItemC == [ Item(<<"b", "\"">>, <<"x.com">>, <<"t2">>, "undefined")
             EXCEPT !.category = <<"Sci", "\"", "Fi">> ]

Items == { ItemA, ItemB, ItemC }

\* The record lists the server may return: every stored record once, in any
\* order.
RECURSIVE ListsUpTo(_)
ListsUpTo(n) ==
    IF n = 0 THEN { <<>> }
    ELSE ListsUpTo(n - 1)
         \cup { Append(l, it) : l \in { m \in ListsUpTo(n - 1) : Len(m) = n - 1 },
                                it \in Items }

Distinct(l) == \A i, j \in 1..Len(l) : i # j => l[i] # l[j]

ItemLists == { l \in ListsUpTo(MaxRecords) : Distinct(l) }

\* Two more records, whose title and source hold the character '-'.
ItemP == Item(<<"a", "-", "b">>, <<"c">>, <<"t1">>, "books")
ItemQ == Item(<<"a">>, <<"b", "-", "c">>, <<"t1">>, "books")

HyphenItems == { ItemA, ItemP, ItemQ }

RECURSIVE ListsOf(_, _)
ListsOf(S, n) ==
    IF n = 0 THEN { <<>> }
    ELSE ListsOf(S, n - 1)
         \cup { Append(l, it) : l \in { m \in ListsOf(S, n - 1) : Len(m) = n - 1 },
                                it \in S }

HyphenLists == { l \in ListsOf(HyphenItems, MaxRecords) : Distinct(l) }

Filters == { "all", "books", "movies" }
Queries == { <<>>, <<" ", "A">> }

\* String.prototype.toLowerCase
LowerChar(c) ==
    CASE c = "A" -> "a"
      [] c = "B" -> "b"
      [] OTHER -> c

ToLower(s) == [ i \in 1..Len(s) |-> LowerChar(s[i]) ]

\* String.prototype.includes
Includes(s, sub) ==
    \E i \in 0..(Len(s) - Len(sub)) : SubSeq(s, i + 1, i + Len(sub)) = sub

\* Mutant of Filtered: the matching records come out last first.
FilteredReversed(d, ct, q) ==
    LET byType == IF ct # "all"
                  THEN SelectSeq(d, LAMBDA item : item.contentType = ct)
                  ELSE d
        found == IF Trim(q) # <<>>
                 THEN SelectSeq(byType,
                          LAMBDA item : Includes(ToLower(item.title), Trim(ToLower(q))))
                 ELSE byType
    IN  [ i \in 1..Len(found) |-> found[Len(found) + 1 - i] ]

\* The list filterData computes: lines 39-51.  Array.prototype.filter is SelectSeq.
Filtered(d, ct, q) ==
    LET byType == IF ct # "all"
                  THEN SelectSeq(d, LAMBDA item : item.contentType = ct)
                  ELSE d
    IN  IF Trim(q) # <<>>
        THEN SelectSeq(byType,
                       LAMBDA item : Includes(ToLower(item.title), Trim(ToLower(q))))
        ELSE byType

\* new URL(source).hostname: throws unless the text is an absolute URL.
ParseURL(source) ==
    IF Len(source) >= 2 /\ source[1] = "http://"
    THEN [ threw |-> FALSE, hostname |-> <<source[2]>> ]
    ELSE [ threw |-> TRUE, hostname |-> <<>> ]

\* The key calculateSiteSummary counts an item under: lines 80-88.
Domain(item) ==
    IF ~ParseURL(item.source).threw THEN ParseURL(item.source).hostname
    ELSE IF item.source # <<>> THEN item.source
    ELSE <<"Unknown Source">>

\* The forEach of calculateSiteSummary:
\* summary[domain] = (summary[domain] || 0) + 1 for each item, lines 79-89.
RECURSIVE CountSites(_, _)
CountSites(items, summary) ==
    IF items = <<>> THEN summary
    ELSE LET domain == Domain(Head(items))
         IN  CountSites(Tail(items),
                        IF domain \in DOMAIN summary
                        THEN [ summary EXCEPT ![domain] = @ + 1 ]
                        ELSE summary @@ (domain :> 1))

\* Mutant of Summary: a site is entered once and its count never incremented.
SummaryNoIncrement(items) ==
    [ h \in { Domain(items[i]) : i \in 1..Len(items) } |-> 1 ]

\* calculateSiteSummary, from the empty summary: lines 77-91.
Summary(items) == CountSites(items, <<>>)

\* The identity key of handleDeleteSelected,
\* `${item.title}-${item.source}-${item.timestamp}`: lines 178, 181.
Key(item) == item.title \o <<"-">> \o item.source \o <<"-">> \o item.timestamp

\* indicesToDelete.map(index => filteredData[index]): lines 167-168.
ItemsAt(view, sel) == { view[i + 1] : i \in sel }

\* data.filter(item => !deletedItemsSet.has(key)): lines 177-182.
WithoutDeleted(d, items) ==
    LET deletedItemsSet == { Key(item) : item \in items }
    IN  SelectSeq(d, LAMBDA item : Key(item) \notin deletedItemsSet)

\* Array.prototype.join on pieces of text.
RECURSIVE Join(_, _)
Join(pieces, sep) ==
    IF pieces = <<>> THEN <<>>
    ELSE IF Len(pieces) = 1 THEN pieces[1]
    ELSE pieces[1] \o <<sep>> \o Join(Tail(pieces), sep)

\* text.replace(/"/g, '""'): line 108.
RECURSIVE ReplaceQuotes(_)
ReplaceQuotes(text) ==
    IF text = <<>> THEN <<>>
    ELSE IF Head(text) = "\"" THEN <<"\"", "\"">> \o ReplaceQuotes(Tail(text))
    ELSE <<Head(text)>> \o ReplaceQuotes(Tail(text))

\* new Date(timestamp).toLocaleString(): the instant in the viewer's local form.
ToLocaleString(timestamp) == <<"local:">> \o timestamp

\* item.contentType || 'books': line 114.
CsvContentType(item) ==
    IF item.contentType = "undefined" THEN "books" ELSE item.contentType

\* `"${text}"`: the template literals of lines 108-114.
InQuotes(text) == <<"\"">> \o text \o <<"\"">>

\* One line of the CSV: lines 107-115.
CsvRow(item) ==
    Join(<< InQuotes(ReplaceQuotes(item.title)),
            InQuotes(item.price),
            InQuotes(item.availability),
            InQuotes(item.category),
            InQuotes(item.source),
            InQuotes(ToLocaleString(item.timestamp)),
            InQuotes(<<CsvContentType(item)>>) >>, ",")

CsvHeaders ==
    << <<"Title">>, <<"Price/Release Date">>, <<"Availability/Rating">>,
       <<"Category">>, <<"Source">>, <<"Timestamp">>, <<"Content Type">> >>

\* csvContent, the lines that join('\n') puts together: lines 105-116.
CsvContent(view) ==
    <<Join(CsvHeaders, ",")>> \o [ i \in 1..Len(view) |-> CsvRow(view[i]) ]

\* The file name of an export: lines 122-123.
FileName(ct, ext) ==
    <<"scraped-data-", "date">> \o (IF ct # "all" THEN <<"_", ct>> ELSE <<>>)
        \o <<ext>>

NoDownload == [ name |-> <<>>, lines |-> <<>> ]

----------------------------------------------------------------------------
(* Dashboard: operations *)

\* The state after construction and the mount effects: fetchData is under way
\* (lines 30-32, 59-60) and filterData has run on the empty list (lines 34-36).
DashInit ==
    /\ data = <<>>
    /\ filteredData = <<>>
    /\ dashLoading = TRUE
    /\ dashError = ""
    /\ siteSummary = Summary(<<>>)
    /\ selectedItems = {}
    /\ isDeleting = FALSE
    /\ contentTypeFilter = "all"
    /\ searchQuery = <<>>
    /\ loadReq = TRUE
    /\ delReq = FALSE
    /\ delItems = {}
    /\ delData = <<>>
    /\ download = NoDownload
    /\ dashLast = "none"

\* The controls are rendered only past the two early returns: lines 197-211.
ControlsShown == ~dashLoading /\ dashError = ""

\* Mutant of FilterEffect: the view is recomputed and the selection kept.
FilterEffectKeepsSelection(d, ct, q) ==
    /\ filteredData' = Filtered(d, ct, q)
    /\ selectedItems' = selectedItems

\* filterData, run by the effect of lines 34-36 when data, contentTypeFilter or
\* searchQuery changed: lines 38-55.
FilterEffect(d, ct, q) ==
    /\ filteredData' = Filtered(d, ct, q)
    /\ selectedItems' = {}

\* The Refresh button: fetchData up to the await, lines 57-60.
Refresh ==
    /\ ControlsShown
    /\ dashLoading' = TRUE
    /\ loadReq' = TRUE
    /\ dashLast' = "refresh"
    /\ UNCHANGED <<data, filteredData, dashError, siteSummary, selectedItems,
                   isDeleting, contentTypeFilter, searchQuery, delReq, delItems,
                   delData>>
    /\ UNCHANGED <<download, formVars>>

\* GET /data answers { success: true, data: list }: lines 62-64, 73.  setData
\* stores a new array, so the filter effect runs.
LoadSuccess(list) ==
    /\ loadReq
    /\ loadReq' = FALSE
    /\ data' = list
    /\ siteSummary' = Summary(list)
    /\ dashLoading' = FALSE
    /\ FilterEffect(list, contentTypeFilter, searchQuery)
    /\ dashLast' = "load_ok"
    /\ UNCHANGED <<dashError, isDeleting, contentTypeFilter, searchQuery, delReq,
                   delItems, delData>>
    /\ UNCHANGED <<download, formVars>>

\* GET /data answers { success: false } (thrown = FALSE) or the request throws
\* (thrown = TRUE): lines 65-74.
LoadFailure(thrown) ==
    /\ loadReq
    /\ loadReq' = FALSE
    /\ dashError' = IF thrown THEN "Error fetching data: Network Error"
                    ELSE "Failed to fetch data"
    /\ dashLoading' = FALSE
    /\ dashLast' = "load_failed"
    /\ UNCHANGED <<data, filteredData, siteSummary, selectedItems, isDeleting,
                   contentTypeFilter, searchQuery, delReq, delItems, delData>>
    /\ UNCHANGED <<download, formVars>>

\* A content-type button: line 272.  Setting the value the state already has
\* causes no render and no effect.
SetContentTypeFilter(t) ==
    /\ ControlsShown
    /\ contentTypeFilter' = t
    /\ IF t # contentTypeFilter
       THEN FilterEffect(data, t, searchQuery)
       ELSE UNCHANGED <<filteredData, selectedItems>>
    /\ dashLast' = IF t # contentTypeFilter THEN "filter" ELSE "filter_same"
    /\ UNCHANGED <<data, dashLoading, dashError, siteSummary, isDeleting,
                   searchQuery, loadReq, delReq, delItems, delData>>
    /\ UNCHANGED <<download, formVars>>

\* The search box and its clear button: lines 293, 303.
SetSearchQuery(q) ==
    /\ ControlsShown
    /\ searchQuery' = q
    /\ IF q # searchQuery
       THEN FilterEffect(data, contentTypeFilter, q)
       ELSE UNCHANGED <<filteredData, selectedItems>>
    /\ dashLast' = IF q # searchQuery THEN "filter" ELSE "filter_same"
    /\ UNCHANGED <<data, dashLoading, dashError, siteSummary, isDeleting,
                   contentTypeFilter, loadReq, delReq, delItems, delData>>
    /\ UNCHANGED <<download, formVars>>

\* handleSelectItem on a rendered row: lines 144-152.
SelectItem(index) ==
    /\ ControlsShown
    /\ Len(data) > 0 /\ index < Len(filteredData)
    /\ selectedItems' = IF index \in selectedItems
                        THEN selectedItems \ { index }
                        ELSE selectedItems \cup { index }
    /\ dashLast' = "select"
    /\ UNCHANGED <<data, filteredData, dashLoading, dashError, siteSummary,
                   isDeleting, contentTypeFilter, searchQuery, loadReq, delReq,
                   delItems, delData>>
    /\ UNCHANGED <<download, formVars>>

\* Mutant of SelectAll: the test for 'all selected' is lost and every click
\* selects all.
SelectAllNeverClears ==
    /\ ControlsShown
    /\ Len(data) > 0
    /\ selectedItems' = 0..(Len(filteredData) - 1)
    /\ dashLast' = "select_all"
    /\ UNCHANGED <<data, filteredData, dashLoading, dashError, siteSummary,
                   isDeleting, contentTypeFilter, searchQuery, loadReq, delReq,
                   delItems, delData>>
    /\ UNCHANGED <<download, formVars>>

\* handleSelectAll: lines 154-160.
SelectAll ==
    /\ ControlsShown
    /\ Len(data) > 0
    /\ selectedItems' = IF Cardinality(selectedItems) = Len(filteredData)
                        THEN {}
                        ELSE 0..(Len(filteredData) - 1)
    /\ dashLast' = "select_all"
    /\ UNCHANGED <<data, filteredData, dashLoading, dashError, siteSummary,
                   isDeleting, contentTypeFilter, searchQuery, loadReq, delReq,
                   delItems, delData>>
    /\ UNCHANGED <<download, formVars>>

\* handleDeleteSelected up to the await: lines 162-173.  The button is rendered
\* when something is selected and disabled while isDeleting (lines 338-345).
DeleteSelected ==
    /\ ControlsShown
    /\ Len(data) > 0 /\ selectedItems # {} /\ ~isDeleting
    /\ isDeleting' = TRUE
    /\ delReq' = TRUE
    /\ delItems' = ItemsAt(filteredData, selectedItems)
    /\ delData' = data
    /\ dashLast' = "delete"
    /\ UNCHANGED <<data, filteredData, dashLoading, dashError, siteSummary,
                   selectedItems, contentTypeFilter, searchQuery, loadReq>>
    /\ UNCHANGED <<download, formVars>>

\* POST /delete answers { success: true }: lines 175-185, 193.  `data` is the
\* closure's; setData stores a new array, so the filter effect runs.
DeleteSuccess ==
    /\ delReq
    /\ delReq' = FALSE
    /\ data' = WithoutDeleted(delData, delItems)
    /\ siteSummary' = Summary(data')
    /\ FilterEffect(data', contentTypeFilter, searchQuery)
    /\ isDeleting' = FALSE
    /\ delItems' = {}
    /\ delData' = <<>>
    /\ dashLast' = "delete_ok"
    /\ UNCHANGED <<dashLoading, dashError, contentTypeFilter, searchQuery, loadReq>>
    /\ UNCHANGED <<download, formVars>>

\* Mutant of DeleteFailure: the removal is applied before the response is
\* looked at, so a failed deletion still removes the records locally.
DeleteFailureRemoves(thrown) ==
    /\ delReq
    /\ delReq' = FALSE
    /\ data' = WithoutDeleted(delData, delItems)
    /\ siteSummary' = Summary(data')
    /\ FilterEffect(data', contentTypeFilter, searchQuery)
    /\ dashError' = IF thrown THEN "Error deleting items: Network Error"
                    ELSE "Failed to delete items"
    /\ isDeleting' = FALSE
    /\ delItems' = {}
    /\ delData' = <<>>
    /\ dashLast' = "delete_failed"
    /\ UNCHANGED <<dashLoading, contentTypeFilter, searchQuery, loadReq>>
    /\ UNCHANGED <<download, formVars>>

\* POST /delete answers { success: false } (thrown = FALSE) or the request
\* throws (thrown = TRUE): lines 186-194.
DeleteFailure(thrown) ==
    /\ delReq
    /\ delReq' = FALSE
    /\ dashError' = IF thrown THEN "Error deleting items: Network Error"
                    ELSE "Failed to delete items"
    /\ isDeleting' = FALSE
    /\ delItems' = {}
    /\ delData' = <<>>
    /\ dashLast' = "delete_failed"
    /\ UNCHANGED <<data, filteredData, dashLoading, siteSummary, selectedItems,
                   contentTypeFilter, searchQuery, loadReq>>
    /\ UNCHANGED <<download, formVars>>

\* exportToCSV, the Export CSV button of the action bar (shown when the list
\* is not empty): lines 103-126, 320-327.
ExportToCSV ==
    /\ ControlsShown
    /\ Len(data) > 0
    /\ download' = [ name |-> FileName(contentTypeFilter, ".csv"),
                     lines |-> CsvContent(filteredData) ]
    /\ dashLast' = "export_csv"
    /\ UNCHANGED <<data, filteredData, dashLoading, dashError, siteSummary,
                   selectedItems, isDeleting, contentTypeFilter, searchQuery,
                   loadReq, delReq, delItems, delData>>
    /\ UNCHANGED formVars

DashNext ==
    \/ Refresh
    \/ \E list \in ItemLists : LoadSuccess(list)
    \/ \E thrown \in BOOLEAN : LoadFailure(thrown)
    \/ \E t \in Filters : SetContentTypeFilter(t)
    \/ \E q \in Queries : SetSearchQuery(q)
    \/ \E index \in 0..(MaxRecords - 1) : SelectItem(index)
    \/ SelectAll
    \/ DeleteSelected
    \/ DeleteSuccess
    \/ \E thrown \in BOOLEAN : DeleteFailure(thrown)

----------------------------------------------------------------------------
(* Specifications: the two components are separate views and share no state *)

Init == FormInit /\ DashInit

FormSpec == Init /\ [][FormNext]_vars

\* The end of a submission by the environment: the channel delivers an event
\* with status completed or error, or fails, or the POST /scrape fails.
TerminalOrFailure ==
    \/ \E k \in Ids, d \in WireData :
          EventKind(d) \in { "completed", "error" } /\ OnMessage(k, d)
    \/ \E k \in Ids : OnError(k)
    \/ \E k \in Ids, e \in ApiErrors : RequestFail(k, e)

\* The form with its scheduling: the synchronous statements of handleSubmit and
\* the render after a handler always run; the environment is assumed to end a
\* submission whenever it can do so again and again.
FormLiveSpec ==
    /\ Init /\ [][FormNext]_vars
    /\ WF_vars(OpenChannel) /\ WF_vars(SendRequest) /\ WF_vars(Render)
    /\ SF_vars(TerminalOrFailure)

DashSpec == Init /\ [][DashNext]_vars

\* The export of the views of one loaded list: the load after mount, the
\* filter controls and the Export CSV button.
ExportNext ==
    \/ \E list \in ItemLists : LoadSuccess(list)
    \/ \E t \in Filters : SetContentTypeFilter(t)
    \/ \E q \in Queries : SetSearchQuery(q)
    \/ ExportToCSV

ExportSpec == Init /\ [][ExportNext]_vars

\* The deletion of records of one loaded list whose fields hold '-': the load
\* after mount, the checkboxes and the Delete Selected button.
DeleteNext ==
    \/ \E list \in HyphenLists : LoadSuccess(list)
    \/ \E index \in 0..(MaxRecords - 1) : SelectItem(index)
    \/ SelectAll
    \/ DeleteSelected
    \/ DeleteSuccess
    \/ \E thrown \in BOOLEAN : DeleteFailure(thrown)

DeleteSpec == Init /\ [][DeleteNext]_vars

----------------------------------------------------------------------------
(* Properties of the scrape form *)

OpenChannels == { k \in Ids : chan[k] = "open" }

\* The events whose status is completed or error, and those that do not decode.
TerminalData == { d \in WireData : EventKind(d) \in { "completed", "error" } }
MalformedData == { d \in WireData : JSONParse(d).threw }

\* One invocation of handleSubmit, whichever branch it takes.
SubmitStep == SubmitInvalid \/ SubmitReset

\* C1: when the POST /scrape of a submit has failed and its failure handler
\* (and the render it causes) has run, the channel that submit opened is not
\* open any more.
C1_FailedRequestClosesChannel ==
    \A k \in Ids : (req[k] = "failed" /\ pc = "ready") => chan[k] # "open"

\* C2: handleSubmit resets progress, then opens the channel and installs its
\* handlers, then sends the request: the channel of a submit is created after
\* the reset and before its request, and the request is sent while that channel
\* is open with its handlers installed.
C2_ChannelOpenBeforeRequest ==
    [][ \A k \in Ids :
          /\ (chan[k] = "none" /\ chan'[k] = "open")
                => (progress = StartingProgress /\ loading /\ req[k] = "none"
                    /\ k \in handlers')
          /\ (req[k] = "none" /\ req'[k] = "inflight")
                => (chan[k] = "open" /\ k \in handlers
                    /\ progress = StartingProgress /\ loading) ]_vars

C2_Witness ==
    \E k \in Ids : req[k] = "inflight" /\ chan[k] = "open" /\ pc = "render"
                   /\ progress = StartingProgress

Rank(s) ==
    CASE s = "idle" -> 0
      [] s = "starting" -> 1
      [] s = "running" -> 2
      [] OTHER -> 3

\* C3: within one submission (any step but the reset of a new submit) the
\* stored status never moves to an earlier stage, and a stored status of
\* completed or error is final.
C3_StatusOnlyForward ==
    [][ ~SubmitReset =>
          /\ Rank(progress'.status) >= Rank(progress.status)
          /\ (progress.status \in { "completed", "error" } => progress' = progress)
      ]_vars

\* C4: an event with status completed or error closes the channel in the step
\* that handles it; along the scenario starting, running, completed the status
\* is idle before the submit, then starting, running, completed, and the
\* channel is open until the completed event and closed from then on.
C4_TerminalEventCloses ==
    /\ [][ \A k \in Ids, d \in TerminalData :
             OnMessage(k, d) => (chan[k] = "open" /\ chan'[k] = "closed") ]_vars
    /\ [](lastEvent = "none" => progress.status = "idle")
    /\ [](lastEvent = "submit" => scenario = 0 /\ progress.status = "starting")
    /\ [](scenario = 1 => progress.status = "starting" /\ chan[created] = "open")
    /\ [](scenario = 2 => progress.status = "running" /\ chan[created] = "open")
    /\ [](scenario = 3 => progress.status = "completed" /\ chan[created] = "closed")

C4_Witness ==
    scenario = 3 /\ progress.status = "completed" /\ chan[created] = "closed"
    /\ lastEvent = "completed"

\* C5: after a transport failure of the channel the progress status is error,
\* the message is the generic one and no channel is open.
C5_TransportErrorSetsErrorStatus ==
    lastEvent = "transport_error"
        => /\ progress.status = "error"
           /\ message = Msg("Connection error occurred")
           /\ OpenChannels = {}

\* C6: an event that cannot be decoded changes nothing of the form: progress,
\* message, loading and the fields stay, the channel stays open with its
\* handlers, and the next event can be handled.
C6_MalformedEventDropped ==
    /\ [][ \A k \in Ids, d \in MalformedData :
             OnMessage(k, d)
                => UNCHANGED <<url, category, contentType, loading, message,
                               messageType, progress, eventSource, chan, handlers>>
         ]_vars
    /\ [](lastEvent = "malformed"
            => \E k \in Ids : chan[k] = "open" /\ k \in handlers /\ pc = "ready")

C6_Witness ==
    lastEvent = "malformed" /\ progress.status = "running" /\ loading

\* C7: a submit whose url is empty after trimming sets the validation message
\* and nothing else: no channel, no request, and loading, progress and the
\* stored channel reference stay.
C7_EmptyUrlRejected ==
    [][ (SubmitStep /\ Trim(url) = <<>>)
          => /\ message' = Msg("Please enter a URL")
             /\ messageType' = "error"
             /\ UNCHANGED <<url, category, loading, progress, eventSource, chan,
                            handlers, req, created>> ]_vars

C7_Witness ==
    lastEvent = "invalid_submit" /\ url = <<" ">>
    /\ message = Msg("Please enter a URL") /\ created = 0

\* C8: at most one progress channel is open at any time.
C8_AtMostOneChannelOpen == Cardinality(OpenChannels) <= 1

\* The events whose status is completed.
CompletedData == { d \in WireData : EventKind(d) = "completed" }

\* C20: a completed event clears url and category and ends loading; an error
\* event, a transport error, a failed request and a rejected submit leave url
\* and category as the user entered them.
C20_FieldsClearedOnlyOnCompleted ==
    [][ /\ \A k \in Ids, d \in CompletedData :
              OnMessage(k, d) => (url' = <<>> /\ category' = "" /\ ~loading')
        /\ \A k \in Ids, d \in TerminalData \ CompletedData :
              OnMessage(k, d) => UNCHANGED <<url, category>>
        /\ \A k \in Ids : OnError(k) => UNCHANGED <<url, category>>
        /\ \A k \in Ids, e \in ApiErrors :
              RequestFail(k, e) => UNCHANGED <<url, category>>
        /\ SubmitInvalid => UNCHANGED <<url, category>>
      ]_vars

\* An error event has ended a submission and the fields are still filled in.
C20_Witness ==
    /\ lastEvent = "error" /\ ~loading
    /\ url = <<"u">> /\ category = "Fiction"

\* C23: whenever the form is not loading no progress channel is open, so that
\* no progress event can change the message, the progress or the fields.
C23_NoChannelUnlessLoading ==
    ~loading => OpenChannels = {}

\* C25: a mounted form that is loading eventually is not loading any more
\* (or is unmounted), given that the channel delivers a terminal event or fails
\* or the request fails; the success of the request leaves loading as it is.
C25_LoadingEventuallyEnds ==
    /\ (loading /\ mounted) ~> (~loading \/ ~mounted)
    /\ [][ \A k \in Ids : RequestOk(k) => UNCHANGED loading ]_vars

\* The request was answered with success and the form is still loading, the
\* channel open.
C25_Witness ==
    /\ lastEvent = "request_ok" /\ loading /\ mounted
    /\ chan[created] = "open"

\* percent = processed / total * 100, or 0 when total is 0.
IsRatio(percent, processed, total) ==
    IF total = 0 THEN percent = 0 ELSE percent * total = processed * 100

\* C16: in every progress state the form holds, scraping_percentage is the
\* ratio of processed_items to total_items (0 when total_items is 0), and
\* ai_percentage that of ai_processed to ai_total.
C16_PercentagesAreRatios ==
    /\ IsRatio(progress.scraping_percentage, progress.processed_items,
               progress.total_items)
    /\ IsRatio(progress.ai_percentage, progress.ai_processed, progress.ai_total)

----------------------------------------------------------------------------
(* Properties of the dashboard *)

\* C9: the selection is empty after every filter event and every reload event,
\* also after a filter event that sets the current value again and after a
\* reload that failed.
C9_SelectionEmptyAfterFilterOrReload ==
    dashLast \in { "filter", "filter_same", "load_ok", "load_failed" }
        => selectedItems = {}

\* C9, amended: the selection is empty after every filter event that changes
\* the content-type filter or the search text and after every successful
\* reload.
C9_SelectionEmptyAfterViewChange ==
    dashLast \in { "filter", "load_ok" } => selectedItems = {}

\* A filter was changed while the deletion of a non-empty selection is in flight.
C9_Witness ==
    dashLast = "filter" /\ selectedItems = {} /\ delReq /\ delItems # {}
    /\ Len(filteredData) > 0

\* C10: the success response of a deletion leaves the canonical list that was
\* there before it without the records whose identity key is that of a selected
\* record, in the same order, with the site summary of the new list and an
\* empty selection.
C10_DeleteSuccessRemovesSelected ==
    [][ DeleteSuccess
          => /\ data' = WithoutDeleted(data, delItems)
             /\ siteSummary' = Summary(data')
             /\ selectedItems' = {} ]_vars

\* C11: the failure of a deletion (a response without success, or a transport
\* error) leaves the canonical list, the derived view and the site summary as
\* they were and sets an error message: no record is removed.
C11_DeleteFailureRemovesNothing ==
    /\ [][ \A thrown \in BOOLEAN :
             DeleteFailure(thrown)
                => /\ UNCHANGED <<data, filteredData, siteSummary>>
                   /\ dashError' # "" ]_vars
    /\ [](dashLast = "delete_failed" => dashError # "")

\* The deletion scenario: [A, B, C] with A and C selected, and the deletion failed.
C11_Witness ==
    /\ dashLast = "delete_failed"
    /\ data = <<ItemA, ItemB, ItemC>> /\ filteredData = data
    /\ selectedItems = { 0, 2 }
    /\ siteSummary = Summary(data)
    /\ dashError = "Failed to delete items"

\* C12: in every state with an error message set and no load under way the
\* reload action is available, and whenever a reload has succeeded the
\* dashboard shows the records with no error.
C12_RetryAfterError ==
    /\ (dashError # "" /\ ~dashLoading) => ENABLED Refresh
    /\ dashLast = "load_ok" => ControlsShown

\* C13: a successful load makes the canonical list the returned list, and a
\* failed load (success:false or a transport error) leaves an empty derived
\* view and an error message.
C13_LoadReplacesOrEmpties ==
    [][ /\ \A list \in ItemLists : LoadSuccess(list) => data' = list
        /\ \A thrown \in BOOLEAN :
              LoadFailure(thrown) => (filteredData' = <<>> /\ dashError' # "")
      ]_vars

\* s can be obtained from t by leaving elements out, the rest in t's order.
RECURSIVE IsSubsequence(_, _)
IsSubsequence(s, t) ==
    IF s = <<>> THEN TRUE
    ELSE IF t = <<>> THEN FALSE
    ELSE IF Head(s) = Head(t) THEN IsSubsequence(Tail(s), Tail(t))
    ELSE IsSubsequence(s, Tail(t))

\* C14: the derived view is the filter applied to the canonical list; it is a
\* subsequence of the canonical list in the same order, and applying the same
\* filter to the view gives the view again.
C14_FilterSubsequenceIdempotent ==
    /\ filteredData = Filtered(data, contentTypeFilter, searchQuery)
    /\ IsSubsequence(filteredData, data)
    /\ Filtered(filteredData, contentTypeFilter, searchQuery) = filteredData

\* Both tests are active: of three records one passes, the others are dropped.
C14_Witness ==
    /\ contentTypeFilter = "books" /\ Trim(searchQuery) # <<>>
    /\ filteredData = <<ItemA>> /\ Len(data) = 3 /\ data[3] = ItemA

\* C15: the derived view is exactly the canonical records, in order, whose
\* content type is the filter's (any, when the filter is 'all') and whose
\* title contains the search text whatever the case of the letters; a record
\* with no content type counts as 'books', as in the export.
C15_ViewIsRecordsPassingBothTests ==
    filteredData =
        SelectSeq(data,
                  LAMBDA item :
                      /\ \/ contentTypeFilter = "all"
                         \/ CsvContentType(item) = contentTypeFilter
                      /\ Includes(ToLower(item.title), ToLower(Trim(searchQuery))))

\* RFC 4180 reading of one CSV line made of quoted fields: the values of the
\* fields, up to the first field that does not end at a comma or at the end of
\* the line.
RECURSIVE CsvParse(_, _, _, _)
CsvParse(rest, cur, fields, inField) ==
    IF ~inField
    THEN IF rest # <<>> /\ Head(rest) = "\""
         THEN CsvParse(Tail(rest), <<>>, fields, TRUE)
         ELSE fields
    ELSE IF rest = <<>> THEN fields
    ELSE IF Head(rest) # "\""
         THEN CsvParse(Tail(rest), Append(cur, Head(rest)), fields, TRUE)
    ELSE IF Len(rest) >= 2 /\ rest[2] = "\""
         THEN CsvParse(Tail(Tail(rest)), Append(cur, "\""), fields, TRUE)
    ELSE IF Len(rest) >= 2 /\ rest[2] = ","
         THEN CsvParse(Tail(Tail(rest)), <<>>, Append(fields, cur), FALSE)
    ELSE Append(fields, cur)

\* The values exportToCSV writes for a record, in the order of the header.
CsvValues(item) ==
    << item.title, item.price, item.availability, item.category, item.source,
       ToLocaleString(item.timestamp), <<CsvContentType(item)>> >>

\* C19: every line of an exported CSV reads back, field by field, as the
\* values of its record: each value is in double quotes with its own double
\* quotes doubled, so that no value ends its field early.
C19_CsvFieldsQuoted ==
    [][ ExportToCSV
          => \A i \in 1..Len(filteredData) :
                CsvParse(download'.lines[i + 1], <<>>, <<>>, FALSE)
                    = CsvValues(filteredData[i]) ]_vars

\* The hostname of a record's source, or the source as it is when it does not
\* parse as a URL.
HostOrRaw(item) ==
    IF ParseURL(item.source).threw THEN item.source
    ELSE ParseURL(item.source).hostname

\* The same, with the text 'Unknown Source' for a source that is empty.
HostOrRawOrUnknown(item) ==
    IF HostOrRaw(item) = <<>> THEN <<"Unknown Source">> ELSE HostOrRaw(item)

RECURSIVE SumOver(_, _)
SumOver(f, keys) ==
    IF keys = {} THEN 0
    ELSE LET k == CHOOSE x \in keys : TRUE IN f[k] + SumOver(f, keys \ { k })

\* C17: the site summary matches the canonical list: its keys are the
\* hostnames (or raw sources, where the source is no URL) of the records, each
\* count is the number of records with that key, and the counts add up to the
\* length of the list.
C17_SummaryMatchesList ==
    /\ DOMAIN siteSummary = { HostOrRaw(data[i]) : i \in 1..Len(data) }
    /\ \A h \in DOMAIN siteSummary :
          siteSummary[h] = Cardinality({ i \in 1..Len(data) : HostOrRaw(data[i]) = h })
    /\ SumOver(siteSummary, DOMAIN siteSummary) = Len(data)

\* C17, amended: as C17, where a record whose source is empty is counted under
\* the key 'Unknown Source'.
C17_SummaryMatchesListOrUnknown ==
    /\ DOMAIN siteSummary = { HostOrRawOrUnknown(data[i]) : i \in 1..Len(data) }
    /\ \A h \in DOMAIN siteSummary :
          siteSummary[h] =
              Cardinality({ i \in 1..Len(data) : HostOrRawOrUnknown(data[i]) = h })
    /\ SumOver(siteSummary, DOMAIN siteSummary) = Len(data)

\* After a deletion two records are left that are counted under one key, one
\* by its hostname and one by its raw source.
C17_Witness ==
    /\ dashLast = "delete_ok"
    /\ data = <<ItemA, ItemC>>
    /\ siteSummary = (<<"x.com">> :> 2)

\* C18: toggleAll selects every position of the view unless every position is
\* selected, and then clears the selection (on an empty view the selection
\* stays empty); toggle(position) flips that position and leaves every other
\* position as it was.
C18_ToggleAndToggleAll ==
    [][ /\ SelectAll
              => LET all == 0..(Len(filteredData) - 1)
                 IN  selectedItems' = IF selectedItems = all THEN {} ELSE all
        /\ \A index \in 0..(MaxRecords - 1) :
              SelectItem(index)
                 => /\ index \in selectedItems' <=> index \notin selectedItems
                    /\ selectedItems' \ { index } = selectedItems \ { index }
      ]_vars

\* toggleAll has selected the three positions of a view of three records.
C18_Witness ==
    /\ dashLast = "select_all"
    /\ Len(filteredData) = 3 /\ selectedItems = { 0, 1, 2 }

\* Two records agree on title, source and timestamp.
SameIdentity(r1, r2) ==
    r1.title = r2.title /\ r1.source = r2.source /\ r1.timestamp = r2.timestamp

\* C21: a successful deletion removes a canonical record only if it agrees
\* with some selected record on title, source and timestamp: a record that
\* differs from every selected record in one of the three is in the list
\* after the deletion as it was before.
C21_OnlySelectedIdentitiesRemoved ==
    [][ DeleteSuccess
          => \A i \in 1..Len(data) :
                (\A j \in 1..Len(data') : data'[j] # data[i])
                   => \E sel \in delItems : SameIdentity(data[i], sel) ]_vars

\* C22: when a reload has changed the canonical list while a deletion was in
\* flight, the success response of the deletion leaves the reloaded list
\* without the records with a deleted identity key.
C22_ReloadDuringDeletionKept ==
    [][ (DeleteSuccess /\ data # delData)
          => data' = WithoutDeleted(data, delItems) ]_vars

\* C24: every selected position is a position of the current derived view.
C24_SelectionWithinView ==
    selectedItems \subseteq 0..(Len(filteredData) - 1)

\* A deletion of three records is in flight, the filter was changed to a view
\* of one record, and that record was selected.
C24_Witness ==
    /\ delReq /\ Cardinality(delItems) = 3
    /\ dashLast = "select"
    /\ Len(filteredData) = 1 /\ selectedItems = { 0 }

====
